---- MODULE Spec2Model ----
(***************************************************************************)
(* liushu: dictionary compilation (Formula::compile, Formula::compile2,    *)
(* build2), the search engines (ShapeCodeEngine, EngineWithRedb), the      *)
(* EngineManager and the REPL loop of the command line front end.          *)
(*                                                                         *)
(* The components are independent programs / objects; every specification  *)
(* below runs one of them (component says which) and leaves the state of   *)
(* the others at its initial value.                                        *)
(***************************************************************************)
EXTENDS Integers, Sequences, FiniteSets, TLC

\* ------------------------------------------------------------------ bounds
MaxEngines == 3    \* engines handed to EngineManager::from
MaxRows == 2       \* dictionary rows read by one compile / compile2 / build2 run
MaxTable == 2      \* rows the dict table of the .db3 store may hold
MaxLines == 5      \* lines typed into the REPL

VARIABLES
    component,
    \* EngineManager
    engines, mgrPc, mgrResult, mgrLog,
    \* Formula::compile and ShapeCodeEngine over <id>.db3
    sqlTable, cTx, cPc, cResult, cPre, cRows, shapeResult,
    \* Formula::compile2 over <id>.redb and <id>.trie
    kv, kvTx, trieMem, trieFile, c2Pc, c2Result, c2PreKv, c2PreTrie, c2Rows,
    \* EngineWithRedb
    engDb, engTrie, redbResult,
    \* build2 over index.bin and def.bin
    items, b2Pc, uniq_words_vec, phf, def_table, visited, b2Trie, b2Next,
    slotWrites, indexBin, defBin, b2Result,
    \* REPL
    replPc, active, replMsg, lastLine, nLines

mgrVars == <<engines, mgrPc, mgrResult, mgrLog>>
sqlVars == <<sqlTable, cTx, cPc, cResult, cPre, cRows, shapeResult>>
redbVars == <<kv, kvTx, trieMem, trieFile, c2Pc, c2Result, c2PreKv, c2PreTrie, c2Rows>>
engVars == <<engDb, engTrie, redbResult>>
b2Vars == <<items, b2Pc, uniq_words_vec, phf, def_table, visited, b2Trie, b2Next,
            slotWrites, indexBin, defBin, b2Result>>
replVars == <<replPc, active, replMsg, lastLine, nLines>>
vars == <<component, mgrVars, sqlVars, redbVars, engVars, b2Vars, replVars>>

\* ------------------------------------------------------------ shared data
None == "None"
\* no search has been made yet
NoResult == [set |-> FALSE]
EmptyMap == [x \in {} |-> None]

\* The bytes the codes are made of.
Ch == [a |-> 97, b |-> 98, x |-> 120, A |-> 65, us |-> 95, pct |-> 37]
Texts == {"t1", "t2"}
\* (weight, comment) of a dictionary row: comment is an Option<String>
RowValues == {[weight |-> 1, comment |-> None], [weight |-> 2, comment |-> "c"]}
\* DictItem { text, code, weight, comment }
DictItem(t, c, v) == [text |-> t, code |-> c, weight |-> v.weight, comment |-> v.comment]
\* the rows a dictionary file may hold: codes "ab" and "b"
RowCodes == {<<Ch.a, Ch.b>>, <<Ch.b>>}
DictRows == {DictItem(t, c, v) : t \in Texts, c \in RowCodes, v \in RowValues}
\* what is typed: "a", "ab", "b", "x", "A", "_", "%", ""
Queries == {<<Ch.a>>, <<Ch.a, Ch.b>>, <<Ch.b>>, <<Ch.x>>, <<Ch.A>>, <<Ch.us>>,
            <<Ch.pct>>, <<>>}

\* code.starts_with(prefix), byte for byte
IsPrefix(prefix, code) ==
    /\ Len(prefix) <= Len(code)
    /\ SubSeq(code, 1, Len(prefix)) = prefix

\* ============================================================ EngineManager
\* The engines of test_engine_manager, told apart by their number: an odd
\* engine answers Ok(vec![]) like Engine1, an even one Err like Engine2.
EngineSearch(e, code) ==
    IF e % 2 = 1 THEN [ok |-> TRUE, by |-> e] ELSE [ok |-> FALSE, by |-> e]

\* a faulty swap: the element at j moves to the front and the ones before
\* it shift back by one (a stable reorder)
SwapRotate(s, i, j) ==
    [p \in 1..Len(s) |->
        IF p = 1 THEN s[j + 1]
        ELSE IF p <= j + 1 THEN s[p - 1]
        ELSE s[p]]

\* VecDeque::swap(i, j), 0-based
VecDequeSwap(s, i, j) ==
    [p \in 1..Len(s) |->
        IF p = i + 1 THEN s[j + 1]
        ELSE IF p = j + 1 THEN s[i + 1]
        ELSE s[p]]

MgrInit ==
    /\ engines = <<>>
    /\ mgrPc = "new"
    /\ mgrResult = NoResult
    /\ mgrLog = <<>>

\* EngineManager::from(value)
EngineManager_from ==
    /\ mgrPc = "new"
    /\ \E n \in 1..MaxEngines : engines' = [p \in 1..n |-> p]
    /\ mgrPc' = "ready"
    /\ UNCHANGED <<mgrResult, mgrLog>>

\* set_active_engine(idx); swap panics on an index out of range
set_active_engine ==
    /\ mgrPc = "ready"
    /\ \E idx \in 0..(MaxEngines - 1) :
        IF idx < Len(engines)
        THEN /\ engines' = VecDequeSwap(engines, 0, idx)
             /\ mgrLog' = <<[k |-> idx, before |-> engines]>>
                          \o SubSeq(mgrLog, 1, IF Len(mgrLog) > 0 THEN 1 ELSE 0)
             /\ UNCHANGED <<mgrPc, mgrResult>>
        ELSE /\ mgrPc' = "panicked"
             /\ UNCHANGED <<engines, mgrResult, mgrLog>>

\* EngineManager::search(code)
EngineManager_search ==
    /\ mgrPc = "ready"
    /\ \E code \in {"hello", "ni"} :
        mgrResult' = [set |-> TRUE, code |-> code, res |-> EngineSearch(engines[1], code),
                      order |-> engines]
    /\ UNCHANGED <<engines, mgrPc, mgrLog>>

MgrFrame == UNCHANGED <<component, sqlVars, redbVars, engVars, b2Vars, replVars>>

MgrNext ==
    \/ EngineManager_from /\ MgrFrame
    \/ set_active_engine /\ MgrFrame
    \/ EngineManager_search /\ MgrFrame

\* ==================================== Formula::compile and ShapeCodeEngine
\* SQLite's LIKE: % matches any run of characters, _ exactly one, and any
\* other character matches itself without regard to ASCII case.
Lower(c) == IF c \in 65..90 THEN c + 32 ELSE c

RECURSIVE LikeMatch(_, _)
LikeMatch(p, s) ==
    IF p = <<>> THEN s = <<>>
    ELSE IF Head(p) = Ch.pct
         THEN LikeMatch(Tail(p), s) \/ (s # <<>> /\ LikeMatch(p, Tail(s)))
    ELSE IF s = <<>> THEN FALSE
    ELSE IF Head(p) = Ch.us THEN LikeMatch(Tail(p), Tail(s))
    ELSE Lower(Head(p)) = Lower(Head(s)) /\ LikeMatch(Tail(p), Tail(s))

\* SearchResultItem::try_from(row)
SearchResultItem(row) ==
    [text |-> row.text, code |-> row.code, weight |-> row.weight,
     comment |-> row.comment]

\* SELECT * FROM (SELECT * FROM dict WHERE code LIKE ?1) GROUP BY text
\* ORDER BY weight DESC, with ?1 = code + "%": every sequence SQLite may
\* return (the row standing for a group, and the order of equal weights, are
\* SQLite's choice).
ShapeResults(table, code) ==
    LET matched == {i \in 1..Len(table) : LikeMatch(code \o <<Ch.pct>>, table[i].code)}
        texts == {table[i].text : i \in matched}
        n == Cardinality(texts)
    IN  {[p \in 1..n |-> SearchResultItem(table[f[o[p]]])] :
            <<f, o>> \in
              {fo \in [texts -> matched] \X [1..n -> texts] :
                 /\ \A t \in texts : table[fo[1][t]].text = t
                 /\ \A p, q \in 1..n : p # q => fo[2][p] # fo[2][q]
                 /\ \A p, q \in 1..n :
                       p < q => table[fo[1][fo[2][p]]].weight
                                >= table[fo[1][fo[2][q]]].weight}}

\* a faulty drop: the pending rows are kept
TxDropCommits(table, tx) == table \o tx

\* What the store holds once a rusqlite Transaction is dropped without
\* commit(): the default DropBehavior rolls it back.
TxDrop(table, tx) == table

SqlInit ==
    /\ sqlTable = <<>>
    /\ cTx = None
    /\ cPc = "idle"
    /\ cResult = None
    /\ cPre = <<>>
    /\ cRows = <<>>
    /\ shapeResult = NoResult

\* cResult, cPre and cRows record the last compile run for the properties;
\* the record is dropped when something else is done with the store.
ForgetRun ==
    /\ cPc' = "idle"
    /\ cResult' = None
    /\ cPre' = <<>>
    /\ cRows' = <<>>

\* conn.execute("INSERT INTO dict ...") outside a transaction, as test_search
\* fills the table before it is used: the row is committed at once.
InsertRow ==
    /\ cPc = "idle"
    /\ Len(sqlTable) < MaxTable
    /\ \E row \in DictRows : sqlTable' = Append(sqlTable, row)
    /\ shapeResult' = NoResult
    /\ UNCHANGED <<cTx, cPc, cResult, cPre, cRows>>

\* compile: Connection::open and conn.transaction()
compile_open ==
    /\ cPc \in {"idle", "returned"}
    /\ cPre' = sqlTable
    /\ cRows' = <<>>
    /\ shapeResult' = NoResult
    /\ \E ok \in BOOLEAN :
        IF ok
        THEN /\ cTx' = <<>>
             /\ cPc' = "rows"
             /\ cResult' = None
        ELSE /\ cTx' = None
             /\ cPc' = "returned"
             /\ cResult' = "Err"
    /\ UNCHANGED sqlTable

\* compile: one row of one dictionary file is read and inserted in tx; a
\* file that cannot be opened, a row that does not parse or an insert that
\* fails returns the error, which drops tx.
compile_row ==
    /\ cPc = "rows"
    /\ \E ok \in BOOLEAN :
        IF ok
        THEN /\ Len(cRows) < MaxRows
             /\ \E row \in DictRows :
                  /\ cTx' = Append(cTx, row)
                  /\ cRows' = Append(cRows, row)
             /\ UNCHANGED <<sqlTable, cPc, cResult>>
        ELSE /\ sqlTable' = TxDrop(sqlTable, cTx)
             /\ cTx' = None
             /\ cPc' = "returned"
             /\ cResult' = "Err"
             /\ UNCHANGED cRows
    /\ UNCHANGED <<cPre, shapeResult>>

\* compile: every file is read; Ok(()) is returned and tx goes out of scope
compile_return ==
    /\ cPc = "rows"
    /\ sqlTable' = TxDrop(sqlTable, cTx)
    /\ cTx' = None
    /\ cPc' = "returned"
    /\ cResult' = "Ok"
    /\ UNCHANGED <<cPre, cRows, shapeResult>>

\* ShapeCodeEngine::search(code)
ShapeCodeEngine_search ==
    /\ cPc \in {"idle", "returned"}
    /\ \E code \in Queries :
        \E r \in ShapeResults(sqlTable, code) :
          shapeResult' = [set |-> TRUE, code |-> code, ok |-> TRUE, items |-> r]
    /\ ForgetRun
    /\ UNCHANGED <<sqlTable, cTx>>

SqlFrame == UNCHANGED <<component, mgrVars, redbVars, engVars, b2Vars, replVars>>

\* the store, compile runs and searches
SqlNext ==
    \/ InsertRow /\ SqlFrame
    \/ compile_open /\ SqlFrame
    \/ compile_row /\ SqlFrame
    \/ compile_return /\ SqlFrame
    \/ ShapeCodeEngine_search /\ SqlFrame

\* ===================================================== Formula::compile2
\* dict_table.insert(text, (weight, comment)): an upsert
Upsert(table, text, value) ==
    [t \in DOMAIN table \cup {text} |-> IF t = text THEN value ELSE table[t]]

\* if trie.get(&code).is_none() { insert(code, vec![text]) } else { push(text) }
TrieAdd(trie, code, text) ==
    IF code \notin DOMAIN trie
    THEN [c \in DOMAIN trie \cup {code} |-> IF c = code THEN <<text>> ELSE trie[c]]
    ELSE [trie EXCEPT ![code] = Append(@, text)]

\* A redb WriteTransaction dropped without commit() is aborted.
WriteTxDrop(committed, pending) == committed

\* no file at the path
NoFile == [state |-> "absent", trie |-> EmptyMap]
\* File::create(path): the file exists and is empty, whatever it held
FileCreate(file) == [state |-> "partial", trie |-> EmptyMap]

\* bincode::serialize_into(writer, &trie), when it succeeds
SerializedTrie(trie) == [state |-> "valid", trie |-> trie]

RedbInit ==
    /\ kv = EmptyMap
    /\ kvTx = None
    /\ trieMem = EmptyMap
    /\ trieFile = NoFile
    /\ c2Pc = "idle"
    /\ c2Result = None
    /\ c2PreKv = EmptyMap
    /\ c2PreTrie = NoFile
    /\ c2Rows = <<>>

\* `?`: the error is returned, as the LiushuError of its source
C2Fail(err) ==
    /\ kvTx' = None
    /\ c2Pc' = "returned"
    /\ c2Result' = err

\* compile2: Database::create, begin_write, PatriciaMap::new, open_table
compile2_open ==
    /\ c2Pc \in {"idle", "returned"}
    /\ c2PreKv' = kv
    /\ c2PreTrie' = trieFile
    /\ c2Rows' = <<>>
    /\ trieMem' = EmptyMap
    /\ \E ok \in BOOLEAN :
        IF ok
        THEN /\ kvTx' = kv
             /\ c2Pc' = "rows"
             /\ c2Result' = None
        ELSE C2Fail("Err(Redb)")
    /\ UNCHANGED <<kv, trieFile>>

\* compile2: one row is read, upserted in the definitions table and added
\* to the trie; any error returns it, dropping the write transaction.
compile2_row ==
    /\ c2Pc = "rows"
    /\ \E outcome \in {"Ok", "Err(Csv)", "Err(Redb)"} :
        IF outcome = "Ok"
        THEN /\ Len(c2Rows) < MaxRows
             /\ \E row \in DictRows :
                  /\ kvTx' = Upsert(kvTx, row.text,
                                    [weight |-> row.weight, comment |-> row.comment])
                  /\ trieMem' = TrieAdd(trieMem, row.code, row.text)
                  /\ c2Rows' = Append(c2Rows, row)
             /\ UNCHANGED <<kv, c2Pc, c2Result>>
        ELSE /\ kv' = WriteTxDrop(kv, kvTx)
             /\ C2Fail(outcome)
             /\ UNCHANGED <<trieMem, c2Rows>>
    /\ UNCHANGED <<trieFile, c2PreKv, c2PreTrie>>

\* compile2: tx.commit()
compile2_commit ==
    /\ c2Pc = "rows"
    /\ \E ok \in BOOLEAN :
        IF ok
        THEN /\ kv' = kvTx
             /\ kvTx' = None
             /\ c2Pc' = "create"
             /\ UNCHANGED c2Result
        ELSE /\ kv' = WriteTxDrop(kv, kvTx)
             /\ C2Fail("Err(Redb)")
    /\ UNCHANGED <<trieMem, trieFile, c2PreKv, c2PreTrie, c2Rows>>

\* compile2: File::create(trie_path)
compile2_create ==
    /\ c2Pc = "create"
    /\ \E ok \in BOOLEAN :
        IF ok
        THEN /\ trieFile' = FileCreate(trieFile)
             /\ c2Pc' = "serialize"
             /\ UNCHANGED <<kvTx, c2Result>>
        ELSE /\ C2Fail("Err(Io)")
             /\ UNCHANGED trieFile
    /\ UNCHANGED <<kv, trieMem, c2PreKv, c2PreTrie, c2Rows>>

\* compile2: bincode::serialize_into(trie_writer, &trie) and Ok(())
compile2_serialize ==
    /\ c2Pc = "serialize"
    /\ \E ok \in BOOLEAN :
        IF ok
        THEN /\ trieFile' = SerializedTrie(trieMem)
             /\ c2Pc' = "returned"
             /\ c2Result' = "Ok"
             /\ UNCHANGED kvTx
        ELSE /\ C2Fail("Err(Bincode)")
             /\ UNCHANGED trieFile
    /\ UNCHANGED <<kv, trieMem, c2PreKv, c2PreTrie, c2Rows>>

RedbFrame == UNCHANGED <<component, mgrVars, sqlVars, engVars, b2Vars, replVars>>

RedbNext ==
    \/ compile2_open /\ RedbFrame
    \/ compile2_row /\ RedbFrame
    \/ compile2_commit /\ RedbFrame
    \/ compile2_create /\ RedbFrame
    \/ compile2_serialize /\ RedbFrame

\* ========================================================= EngineWithRedb
\* the codes of the tries an engine is loaded with: "a", "ab", "b"
EngCodes == {<<Ch.a>>, <<Ch.a, Ch.b>>, <<Ch.b>>}
EngPairs == {[text |-> t, code |-> c] : t \in Texts, c \in EngCodes}

RECURSIVE TrieOf(_)
TrieOf(rows) ==
    IF rows = <<>> THEN EmptyMap
    ELSE LET front == SubSeq(rows, 1, Len(rows) - 1)
             last == rows[Len(rows)]
         IN  TrieAdd(TrieOf(front), last.code, last.text)

RECURSIVE SeqsUpTo(_, _)
SeqsUpTo(S, n) ==
    IF n = 0 THEN {<<>>}
    ELSE LET shorter == SeqsUpTo(S, n - 1)
         IN  shorter \cup {Append(q, e) : q \in shorter, e \in S}

\* the definitions tables over Texts
DefTables == UNION {[S -> RowValues] : S \in SUBSET Texts}

\* byte order of the keys, the order PatriciaMap iterates in
RECURSIVE LexLess(_, _)
LexLess(a, b) ==
    IF a = <<>> THEN b # <<>>
    ELSE IF b = <<>> THEN FALSE
    ELSE IF Head(a) # Head(b) THEN Head(a) < Head(b)
    ELSE LexLess(Tail(a), Tail(b))

RECURSIVE SortedKeys(_)
SortedKeys(S) ==
    IF S = {} THEN <<>>
    ELSE LET m == CHOOSE k \in S : \A o \in S \ {k} : LexLess(k, o)
         IN  <<m>> \o SortedKeys(S \ {m})

\* a faulty lookup: the exact key only
iter_prefix_exact(trie, code) == SortedKeys({k \in DOMAIN trie : k = code})

\* trie.iter_prefix(code.as_bytes()): the keys that start with code
iter_prefix(trie, code) == SortedKeys({k \in DOMAIN trie : IsPrefix(code, k)})

\* dictionary.get(text) mapped to an item, then .ok().flatten(): nothing
\* when the table has no entry for text
RECURSIVE KeyItems(_, _, _)
KeyItems(db, key, texts) ==
    IF texts = <<>> THEN <<>>
    ELSE (IF Head(texts) \in DOMAIN db
          THEN <<[text |-> Head(texts), code |-> key,
                  weight |-> db[Head(texts)].weight,
                  comment |-> db[Head(texts)].comment]>>
          ELSE <<>>)
         \o KeyItems(db, key, Tail(texts))

RECURSIVE FlatMapKeys(_, _, _)
FlatMapKeys(db, trie, keys) ==
    IF keys = <<>> THEN <<>>
    ELSE KeyItems(db, Head(keys), trie[Head(keys)])
         \o FlatMapKeys(db, trie, Tail(keys))

EngInit ==
    /\ engTrie = EmptyMap
    /\ engDb = EmptyMap
    /\ redbResult = NoResult

\* EngineWithRedb::with(path) has loaded a store and a trie
EngLoaded ==
    /\ engTrie \in {TrieOf(rows) : rows \in SeqsUpTo(EngPairs, MaxRows)}
    /\ engDb \in DefTables
    /\ redbResult = NoResult

\* EngineWithRedb::search(code); begin_read and open_table may fail
EngineWithRedb_search ==
    /\ \E code \in Queries, storageOk \in BOOLEAN :
        redbResult' =
          IF storageOk
          THEN [set |-> TRUE, code |-> code, ok |-> TRUE, storageOk |-> storageOk,
                items |-> FlatMapKeys(engDb, engTrie, iter_prefix(engTrie, code))]
          ELSE [set |-> TRUE, code |-> code, ok |-> FALSE, storageOk |-> storageOk, items |-> <<>>]
    /\ UNCHANGED <<engDb, engTrie>>

EngFrame == UNCHANGED <<component, mgrVars, sqlVars, redbVars, b2Vars, replVars>>

EngNext ==
    \/ EngineWithRedb_search /\ EngFrame

\* ================================================================= build2
\* items.iter().map(|i| i.text.clone()).unique().collect(): the texts in
\* the order of their first occurrence
RECURSIVE Unique(_)
Unique(xs) ==
    IF xs = <<>> THEN <<>>
    ELSE LET front == Unique(SubSeq(xs, 1, Len(xs) - 1))
             last == xs[Len(xs)]
         IN  IF \E i \in 1..Len(front) : front[i] = last
             THEN front ELSE Append(front, last)

Range(f) == {f[x] : x \in DOMAIN f}

\* Mphf::new(1.7, &uniq_words_vec): a minimal perfect hash of the keys, any
\* bijection onto 0..n-1 (which one depends on the build)
Mphfs(keys) ==
    {h \in [Range(keys) -> 0..(Len(keys) - 1)] :
        \A s, t \in Range(keys) : s # t => h[s] # h[t]}

\* if let Some(entry) = trie.get_mut(code) { entry.insert(text) }
\* else { trie.insert(code, StringPatriciaSet::from_iter([text])) }
TrieSetAdd(trie, code, text) ==
    IF code \in DOMAIN trie
    THEN [trie EXCEPT ![code] = @ \cup {text}]
    ELSE [c \in DOMAIN trie \cup {code} |-> IF c = code THEN {text} ELSE trie[c]]

\* a faulty check: every row is taken for a first occurrence
NeverVisited(seen, text) == TRUE

\* if visited.get(&item.text).is_none()
NotVisited(seen, text) == text \notin seen

NoBin == [state |-> "absent", trie |-> EmptyMap, table |-> <<>>, hash |-> EmptyMap]
\* index.bin / def.bin after File::create and after serialize_into
CreatedBin == [state |-> "partial", trie |-> EmptyMap, table |-> <<>>, hash |-> EmptyMap]
IndexBinOf(trie) == [state |-> "valid", trie |-> trie, table |-> <<>>, hash |-> EmptyMap]
\* def.bin holds the array; hash records which slot the build gave each text
DefBinOf(table, hash) == [state |-> "valid", trie |-> EmptyMap, table |-> table, hash |-> hash]

B2Init ==
    /\ items = <<>>
    /\ b2Pc = "idle"
    /\ uniq_words_vec = <<>>
    /\ phf = EmptyMap
    /\ def_table = <<>>
    /\ visited = {}
    /\ b2Trie = EmptyMap
    /\ b2Next = 1
    /\ slotWrites = <<>>
    /\ indexBin = NoBin
    /\ defBin = NoBin
    /\ b2Result = None

B2Fail ==
    /\ b2Pc' = "returned"
    /\ b2Result' = "Err"

\* build2 is called
B2Start ==
    /\ items' = <<>>
    /\ b2Pc' = "read"
    /\ uniq_words_vec' = <<>>
    /\ phf' = EmptyMap
    /\ def_table' = <<>>
    /\ visited' = {}
    /\ b2Trie' = EmptyMap
    /\ b2Next' = 1
    /\ slotWrites' = <<>>
    /\ b2Result' = None
    /\ UNCHANGED <<indexBin, defBin>>

build2_start ==
    /\ b2Pc = "idle"
    /\ B2Start

\* build2 is called again, over the files an earlier run left
build2_again ==
    /\ b2Pc = "returned"
    /\ B2Start

\* build2: one row is read and pushed to items, or the error is returned
build2_read ==
    /\ b2Pc = "read"
    /\ \E ok \in BOOLEAN :
        IF ok
        THEN /\ Len(items) < MaxRows
             /\ \E row \in DictRows : items' = Append(items, row)
             /\ UNCHANGED <<b2Pc, b2Result>>
        ELSE /\ B2Fail
             /\ UNCHANGED items
    /\ UNCHANGED <<uniq_words_vec, phf, def_table, visited, b2Trie, b2Next,
                   slotWrites, indexBin, defBin>>

\* build2: the trie, the distinct texts, the hash, the table and visited
\* are set up (def_table is indexed from 0 in the source, from 1 here)
build2_prepare ==
    /\ b2Pc = "read"
    /\ LET u == Unique([i \in 1..Len(items) |-> items[i].text])
       IN  /\ uniq_words_vec' = u
           /\ phf' \in Mphfs(u)
           /\ def_table' = [i \in 1..Len(u) |-> [weight |-> 0, comment |-> None]]
           /\ slotWrites' = [i \in 1..Len(u) |-> 0]
    /\ b2Trie' = EmptyMap
    /\ visited' = {}
    /\ b2Next' = 1
    /\ b2Pc' = "loop"
    /\ UNCHANGED <<items, indexBin, defBin, b2Result>>

\* build2: one turn of `for item in items`
build2_item ==
    /\ b2Pc = "loop"
    /\ b2Next <= Len(items)
    /\ LET item == items[b2Next]
       IN  /\ b2Trie' = TrieSetAdd(b2Trie, item.code, item.text)
           /\ IF NotVisited(visited, item.text)
              THEN LET index == phf[item.text]
                   IN  /\ visited' = visited \cup {item.text}
                       /\ def_table' = [def_table EXCEPT ![index + 1] =
                              [weight |-> item.weight, comment |-> item.comment]]
                       /\ slotWrites' = [slotWrites EXCEPT ![index + 1] = @ + 1]
              ELSE UNCHANGED <<visited, def_table, slotWrites>>
    /\ b2Next' = b2Next + 1
    /\ UNCHANGED <<items, b2Pc, uniq_words_vec, phf, indexBin, defBin, b2Result>>

\* build2: File::create(index.bin) and serialize_into(trie)
build2_write_index ==
    /\ b2Pc = "loop"
    /\ b2Next > Len(items)
    /\ \E outcome \in {"ok", "create fails", "write fails"} :
        /\ indexBin' = CASE outcome = "ok" -> IndexBinOf(b2Trie)
                          [] outcome = "create fails" -> indexBin
                          [] OTHER -> CreatedBin
        /\ IF outcome = "ok"
           THEN /\ b2Pc' = "def"
                /\ UNCHANGED b2Result
           ELSE B2Fail
    /\ UNCHANGED <<items, uniq_words_vec, phf, def_table, visited, b2Trie, b2Next,
                   slotWrites, defBin>>

\* build2: File::create(def.bin), serialize_into(def_table) and Ok(())
build2_write_def ==
    /\ b2Pc = "def"
    /\ \E outcome \in {"ok", "create fails", "write fails"} :
        /\ defBin' = CASE outcome = "ok" -> DefBinOf(def_table, phf)
                        [] outcome = "create fails" -> defBin
                        [] OTHER -> CreatedBin
        /\ IF outcome = "ok"
           THEN /\ b2Pc' = "returned"
                /\ b2Result' = "Ok"
           ELSE B2Fail
    /\ UNCHANGED <<items, uniq_words_vec, phf, def_table, visited, b2Trie, b2Next,
                   slotWrites, indexBin>>

B2Frame == UNCHANGED <<component, mgrVars, sqlVars, redbVars, engVars, replVars>>

\* one run
Build2Next ==
    \/ build2_start /\ B2Frame
    \/ build2_read /\ B2Frame
    \/ build2_prepare /\ B2Frame
    \/ build2_item /\ B2Frame
    \/ build2_write_index /\ B2Frame
    \/ build2_write_def /\ B2Frame

\* run after run
Build2RunsNext ==
    \/ build2_start /\ B2Frame
    \/ build2_again /\ B2Frame
    \/ build2_read /\ B2Frame
    \/ build2_prepare /\ B2Frame
    \/ build2_item /\ B2Frame
    \/ build2_write_index /\ B2Frame
    \/ build2_write_def /\ B2Frame

\* =================================================================== REPL
\* The trimmed input lines, split at spaces: "*use f1", "*use f2",
\* "*use zz", "*use", "*quit", "ni" and the empty line.
QuitLine == <<"*quit">>
Lines == {<<"*use", "f1">>, <<"*use", "f2">>, <<"*use", "zz">>, <<"*use">>,
          QuitLine, <<"ni">>, <<"">>}
\* input.starts_with("*use")
StartsWithUse(line) == line[1] = "*use"
\* input.split(' ').last().unwrap()
LastWord(line) == line[Len(line)]

\* the formulas Engine::init has loaded
KnownFormulas == {"f1", "f2"}
\* Engine::set_active_formula(id): the error of an unknown id, or Ok
SetActiveFormulaResult(id) == IF id \in KnownFormulas THEN "Ok" ELSE "NotFound"

ReplInit ==
    /\ replPc = "prompt"
    /\ active = "f1"
    /\ replMsg = None
    /\ lastLine = <<>>
    /\ nLines = 0

\* main, Commands::Repl: one turn of the loop with read_line succeeding
repl_line ==
    /\ replPc = "prompt"
    /\ nLines < MaxLines
    /\ nLines' = nLines + 1
    /\ \E input \in Lines, searchOk \in BOOLEAN :
        /\ lastLine' = input
        /\ IF StartsWithUse(input) /\ SetActiveFormulaResult(LastWord(input)) # "Ok"
           THEN \* set_active_formula(..).unwrap() panics
                /\ replPc' = "panicked"
                /\ UNCHANGED <<active, replMsg>>
           ELSE /\ active' = IF StartsWithUse(input) THEN LastWord(input) ELSE active
                /\ IF input = QuitLine
                   THEN /\ replPc' = "quit"
                        /\ UNCHANGED replMsg
                   ELSE /\ replPc' = "prompt"
                        /\ replMsg' = IF searchOk THEN "results" ELSE "error"

\* main, Commands::Repl: read_line fails, the error is printed
repl_read_error ==
    /\ replPc = "prompt"
    /\ nLines < MaxLines
    /\ nLines' = nLines + 1
    /\ replMsg' = "error"
    /\ lastLine' = <<>>
    /\ UNCHANGED <<replPc, active>>

ReplFrame == UNCHANGED <<component, mgrVars, sqlVars, redbVars, engVars, b2Vars>>

ReplNext ==
    \/ repl_line /\ ReplFrame
    \/ repl_read_error /\ ReplFrame

\* ========================================================= specifications
Idle(c) ==
    /\ component = c
    /\ MgrInit
    /\ SqlInit
    /\ RedbInit
    /\ B2Init
    /\ ReplInit

InitManager == Idle("EngineManager") /\ EngInit
InitCompile == Idle("compile") /\ EngInit
InitCompile2 == Idle("compile2") /\ EngInit
InitCompilers == \E c \in {"compile", "compile2"} : Idle(c) /\ EngInit
InitSearch == Idle("EngineWithRedb") /\ EngLoaded
InitBuild2 == Idle("build2") /\ EngInit
InitRepl == Idle("repl") /\ EngInit

CompilersNext ==
    \/ component = "compile" /\ InsertRow /\ SqlFrame
    \/ component = "compile" /\ compile_open /\ SqlFrame
    \/ component = "compile" /\ compile_row /\ SqlFrame
    \/ component = "compile" /\ compile_return /\ SqlFrame
    \/ component = "compile2" /\ compile2_open /\ RedbFrame
    \/ component = "compile2" /\ compile2_row /\ RedbFrame
    \/ component = "compile2" /\ compile2_commit /\ RedbFrame
    \/ component = "compile2" /\ compile2_create /\ RedbFrame
    \/ component = "compile2" /\ compile2_serialize /\ RedbFrame

\* an EngineManager
SpecManager == InitManager /\ [][MgrNext]_vars
\* a .db3 store, compile runs and a ShapeCodeEngine over it
SpecCompile == InitCompile /\ [][SqlNext]_vars
\* a .redb store and a .trie file under compile2 runs
SpecCompile2 == InitCompile2 /\ [][RedbNext]_vars
\* both compilers, each over its own store
SpecCompilers == InitCompilers /\ [][CompilersNext]_vars
\* an EngineWithRedb over a loaded trie and store
SpecSearch == InitSearch /\ [][EngNext]_vars
\* one build2 run
SpecBuild2 == InitBuild2 /\ [][Build2Next]_vars
\* build2 runs one after the other over the same output directory
SpecBuild2Runs == InitBuild2 /\ [][Build2RunsNext]_vars
\* the REPL
SpecRepl == InitRepl /\ [][ReplNext]_vars
\* the default: the two compilers
Spec == SpecCompilers

\* ============================================================= properties
\* the definitions table a run over rows leaves when it starts from table
RECURSIVE UpsertAll(_, _)
UpsertAll(table, rows) ==
    IF rows = <<>> THEN table
    ELSE UpsertAll(Upsert(table, Head(rows).text,
                          [weight |-> Head(rows).weight, comment |-> Head(rows).comment]),
                   Tail(rows))

\* C1: after set_active_engine(k) with 0 <= k < n the engines at positions
\* 0 and k are exchanged and every other position is unchanged; a search
\* returns the result of the engine at position 0; two calls in a row with
\* the same k restore the order that held before the first.
C1_SwapAndDelegate ==
    /\ mgrLog # <<>> =>
         LET k == mgrLog[1].k
             b == mgrLog[1].before
         IN  /\ Len(engines) = Len(b)
             /\ engines[1] = b[k + 1]
             /\ engines[k + 1] = b[1]
             /\ \A p \in 1..Len(b) : p \notin {1, k + 1} => engines[p] = b[p]
    /\ mgrResult.set =>
         /\ mgrResult.res.by = mgrResult.order[1]
         /\ mgrResult.res = EngineSearch(mgrResult.order[1], mgrResult.code)
    /\ (Len(mgrLog) = 2 /\ mgrLog[1].k = mgrLog[2].k) => engines = mgrLog[2].before

C1_Witness ==
    /\ Len(engines) = 3
    /\ Len(mgrLog) = 2
    /\ mgrLog[1].k = 2
    /\ mgrLog[2].k = 2
    /\ mgrLog[2].before # mgrLog[1].before
    /\ mgrResult.set
    /\ mgrResult.order = mgrLog[1].before
    /\ mgrResult.res.by = 3

\* C2: when compile returns Ok, the dict table holds the rows it held
\* before the call followed by one row per source row read.
C2_CompileAddsRows ==
    (cPc = "returned" /\ cResult = "Ok") => sqlTable = cPre \o cRows

\* C3: a reader of the store sees none of the rows of a compile or compile2
\* run while it is in progress, sees either none or all of them afterwards,
\* and sees the content from before the run once the run has failed with a
\* parse, I/O or insert error (which is what the caller gets).
C3_AllOrNothing ==
    /\ cPc = "rows" => sqlTable = cPre
    /\ cPc = "returned" => sqlTable \in {cPre, cPre \o cRows}
    /\ (cPc = "returned" /\ cResult = "Err") => sqlTable = cPre
    /\ c2Pc = "rows" => kv = c2PreKv
    /\ c2Pc \in {"create", "serialize", "returned"} =>
         kv \in {c2PreKv, UpsertAll(c2PreKv, c2Rows)}
    /\ (c2Pc = "returned" /\ c2Result \in {"Err(Csv)", "Err(Redb)"}) => kv = c2PreKv

C3_Witness ==
    /\ c2Pc = "returned"
    /\ c2Result = "Err(Csv)"
    /\ Len(c2Rows) = 2
    /\ c2PreKv # EmptyMap
    /\ UpsertAll(c2PreKv, c2Rows) # c2PreKv
    /\ kv = c2PreKv

\* C4: after a successful compile (compile2) run the table (definitions
\* table and trie) holds exactly what the rows of that run produce: nothing
\* of an earlier run is left, nothing is duplicated.
C4_RerunReplaces ==
    /\ (cPc = "returned" /\ cResult = "Ok") => sqlTable = cRows
    /\ (c2Pc = "returned" /\ c2Result = "Ok") =>
         /\ kv = UpsertAll(EmptyMap, c2Rows)
         /\ trieFile = SerializedTrie(TrieOf(c2Rows))

\* C5: in build2 the definition array has one slot per distinct text, two
\* distinct texts have different indices, no slot is written twice, and
\* the slot of a text the loop has passed holds the (weight, comment) of
\* its first occurrence.
C5_FirstOccurrenceOnce ==
    b2Pc \in {"loop", "def"} =>
      LET texts == {items[i].text : i \in 1..Len(items)}
          seen == {items[i].text : i \in 1..(b2Next - 1)}
          First(t) == items[CHOOSE i \in 1..Len(items) :
                              /\ items[i].text = t
                              /\ \A j \in 1..(i - 1) : items[j].text # t]
      IN  /\ Len(def_table) = Cardinality(texts)
          /\ \A t \in texts : phf[t] \in 0..(Len(def_table) - 1)
          /\ \A t, u \in texts : t # u => phf[t] # phf[u]
          /\ \A t \in texts : slotWrites[phf[t] + 1] = IF t \in seen THEN 1 ELSE 0
          /\ \A t \in seen :
                def_table[phf[t] + 1] =
                  [weight |-> First(t).weight, comment |-> First(t).comment]

C5_Witness ==
    /\ b2Pc = "def"
    /\ Len(items) = 2
    /\ items[1].text = items[2].text
    /\ items[1].weight = 2
    /\ items[2].weight = 1
    /\ def_table = <<[weight |-> 2, comment |-> "c"]>>

C7_LiteralPrefixGrouped ==
    shapeResult.set =>
      LET q == shapeResult.code
          r == shapeResult.items
          rows == {i \in 1..Len(sqlTable) : IsPrefix(q, sqlTable[i].code)}
          texts == {sqlTable[i].text : i \in rows}
      IN  /\ shapeResult.ok
          /\ Len(r) = Cardinality(texts)
          /\ {r[p].text : p \in 1..Len(r)} = texts
          /\ \A p \in 1..Len(r) :
                \E i \in rows : r[p] = SearchResultItem(sqlTable[i])
          /\ \A p, p2 \in 1..Len(r) : p < p2 => r[p].weight >= r[p2].weight

\* C8: the REPL loop is never ended by an error: it ends on "*quit" only,
\* and a "*use" of an unknown formula leaves the loop running.
C8_LoopEndsOnQuitOnly ==
    /\ replPc # "panicked"
    /\ replPc = "quit" => lastLine = QuitLine

\* C9: whenever compile2 returns an error, a trie file that existed before
\* the call holds its previous content.
C9_TrieFileKeptOnError ==
    (c2Pc = "returned" /\ c2Result \notin {None, "Ok"} /\ c2PreTrie.state # "absent")
        => trieFile = c2PreTrie

\* C10: between runs, every text of the persisted trie has an entry in the
\* persisted definition table: a key of the definitions table (compile2), a
\* written slot of def.bin (build2).
C10_TrieTextsDefined ==
    /\ (c2Pc \in {"idle", "returned"} /\ trieFile.state = "valid") =>
         \A c \in DOMAIN trieFile.trie :
           \A i \in 1..Len(trieFile.trie[c]) : trieFile.trie[c][i] \in DOMAIN kv
    /\ (b2Pc \in {"idle", "returned"} /\ indexBin.state = "valid"
          /\ defBin.state = "valid") =>
         \A c \in DOMAIN indexBin.trie :
           \A t \in indexBin.trie[c] : t \in DOMAIN defBin.hash

====
